---- MODULE Spec2Model ----
(***************************************************************************)
(* Download orchestration of youtube_downloader.py: the Tk main loop       *)
(* (start_download, stop_download, the root.after callback queue) and the  *)
(* _download_thread workers with their primary attempt, the five fallback  *)
(* attempts and the final "desperate" attempt.  The extraction backend     *)
(* (yt_dlp.YoutubeDL.download) is the environment: it emits progress       *)
(* events and logger lines, and then returns or raises.  The text of the   *)
(* log widget is not part of the state; of the log_message calls only the  *)
(* "No files were downloaded" report is recorded, in sched.  The variables *)
(* attempts, restricted, stop_in_flight and sched record what a session    *)
(* has done so far and are forgotten when its thread ends.  The finished    *)
(* files the backend has reported (emitted) and the threads that write the *)
(* log widget (log_text) are followed in SessionSpec only.                 *)
(* A worker step runs from one read of is_downloading or one backend event *)
(* to the next: the code between touches only the worker's locals.  A      *)
(* local is put back to its initial value once the code reads it no more.  *)
(***************************************************************************)
EXTENDS Integers, Sequences, FiniteSets, TLC

\* ------------------------------------------------------------------ bounds
\* number of download sessions that start_download may launch
MaxSessions == 2
\* number of progress events the backend emits in one session
MaxEvents == 1
\* entries of the analysed playlist
MaxEntries == 2
W == 1..MaxSessions

\* ------------------------------------------------------- program constants
\* the list with its first two formats exchanged
fallback_formats_swapped ==
    << "602+139-drc", "bestaudio", "bestvideo+bestaudio", "602", "139-drc" >>

\* fallback_formats of _fallback_download, in list order
fallback_formats ==
    << "bestaudio", "602+139-drc", "bestvideo+bestaudio", "602", "139-drc" >>

\* a loop that leaves out the last format
NumFallbacksButLast == Len(fallback_formats) - 1

\* the iterations of the loop over fallback_formats
NumFallbacks == Len(fallback_formats)

\* bytes per MiB used by the raw downloaded_bytes indicator
MiB == 1048576

\* marks a key that is absent from a progress dictionary
Absent == -1

\* ------------------------------------------------------------ the inputs
\* URLs typed into the entry: empty, not a YouTube URL, a YouTube URL
Urls == {"", "http://example.com", "https://youtu.be/x"}

is_valid_youtube_url(url) == url = "https://youtu.be/x"

\* exception texts the backend raises
ErrTexts == {"HTTP Error 403", "Forbidden", "Video unavailable", "timed out"}

\* the exception text taken as it is
LowerOmitted(s) == s

\* str.lower() on the exception texts
Lower(s) ==
    CASE s = "HTTP Error 403" -> "http error 403"
      [] s = "Forbidden" -> "forbidden"
      [] s = "Video unavailable" -> "video unavailable"
      [] OTHER -> s

\* the substring test  sub in s  on the exception texts and their lower case
Contains(s, sub) ==
    CASE sub = "403" -> s \in {"HTTP Error 403", "http error 403"}
      [] sub = "Forbidden" -> s = "Forbidden"
      [] sub = "forbidden" -> s = "forbidden"
      [] sub = "unavailable" -> s \in {"Video unavailable", "video unavailable"}
      [] OTHER -> FALSE

\* a text key that a progress dictionary does not have
NoStr == "<absent>"

\* float(percent_str.replace('%', '')) of line 1999 on the stripped text, as a
\* set: empty when the text is skipped or float() raises ValueError
ParsePercent(s) ==
    CASE s = " 42.0%" -> {42}
      [] s = "100%" -> {100}
      [] OTHER -> {}

\* file names carried by the progress events
Files == {"a.mp4", "b.mp4"}

\* a progress dictionary d handed to the progress hooks
Event(st, fn, db, tb, tbe, fidx, fcnt, pstr, err) ==
    [status |-> st, filename |-> fn, downloaded_bytes |-> db, total_bytes |-> tb,
     total_bytes_estimate |-> tbe, fragment_index |-> fidx, fragment_count |-> fcnt,
     percent_str |-> pstr, error |-> err]

\* no progress dictionary
NoEvent == Event("none", "", Absent, Absent, Absent, Absent, Absent, NoStr, "")

Events ==
    { Event("downloading", "a.mp4", 50, 100, Absent, 3, 10, NoStr, ""),
      Event("finished", "a.mp4", Absent, Absent, Absent, Absent, Absent, NoStr, ""),
      Event("finished", "b.mp4", Absent, Absent, Absent, Absent, Absent, NoStr, ""),
      Event("finished", "", Absent, Absent, Absent, Absent, Absent, NoStr, ""),
      Event("error", "a.mp4", Absent, Absent, Absent, Absent, Absent, NoStr, "HTTP Error 403") }

\* lines the backend writes to the logger's debug()
DebugMsgs == {"[download] a.mp4 has already been downloaded",
              "[download] Destination: a.mp4"}

\* "has already been downloaded" in msg
SaysAlreadyDownloaded(msg) ==
    msg = "[download] a.mp4 has already been downloaded"

\* _progress_hook, status 'downloading': the percent handed to _update_progress
\* as a set, empty when no tier schedules an update (float arithmetic is
\* taken with integer division)
ProgressOf(d) ==
    IF d.total_bytes # Absent /\ d.total_bytes > 0
    THEN {(d.downloaded_bytes * 100) \div d.total_bytes}
    ELSE IF d.total_bytes_estimate # Absent /\ d.total_bytes_estimate > 0
    THEN {(d.downloaded_bytes * 100) \div d.total_bytes_estimate}
    ELSE IF d.fragment_index # Absent /\ d.fragment_count # Absent
    THEN IF d.fragment_count > 0
         THEN {(d.fragment_index * 100) \div d.fragment_count
               + (IF d.downloaded_bytes # Absent /\ d.total_bytes # Absent
                     /\ d.total_bytes # 0
                  THEN (d.downloaded_bytes * 100) \div (d.total_bytes * d.fragment_count)
                  ELSE 0)}
         ELSE {}
    ELSE IF d.percent_str # NoStr
    THEN ParsePercent(d.percent_str)
    ELSE IF d.downloaded_bytes # Absent /\ d.downloaded_bytes # 0
    THEN {IF (d.downloaded_bytes * 2) \div MiB < 50
          THEN (d.downloaded_bytes * 2) \div MiB ELSE 50}
    ELSE {}

\* ------------------------------------------------- the download request
\* texts of the quality combobox: its values, a dynamic 'Np' value added by
\* _update_quality_options, and a typed text that is no quality
Qualities == {"Best Quality", "720p", "480p", "360p", "240p", "1080p",
              "Data Saving", "Audio Only", "4K"}

\* quality.endswith('p') and quality[:-1].isdigit()
IsHeight(quality) == quality \in {"720p", "480p", "360p", "240p", "1080p"}

\* quality[:-1]
Height(quality) ==
    CASE quality = "720p" -> "720"
      [] quality = "480p" -> "480"
      [] quality = "360p" -> "360"
      [] quality = "240p" -> "240"
      [] quality = "1080p" -> "1080"

\* _get_format_selector: the selector as the sequence of its alternatives,
\* which the code joins with '/'
get_format_selector(quality) ==
    CASE quality = "Audio Only" -> << "bestaudio" >>
      [] quality = "Data Saving" ->
             << "worstvideo[height>=144]+bestaudio", "602+139-drc", "602+139",
                "602", "160+139", "160", "bestaudio" >>
      [] quality = "Best Quality" ->
             << "bestvideo+bestaudio", "best[height<=2160]",
                "bestvideo[height<=1440]+bestaudio",
                "bestvideo[height<=1080]+bestaudio", "bestvideo+bestaudio",
                "bestaudio" >>
      [] quality = "720p" ->
             << "bestvideo[height<=720]+bestaudio", "136+140", "136+139", "bestaudio" >>
      [] quality = "480p" ->
             << "bestvideo[height<=480]+bestaudio", "135+140", "135+139", "bestaudio" >>
      [] quality = "360p" ->
             << "bestvideo[height<=360]+bestaudio", "134+140", "134+139", "bestaudio" >>
      [] quality = "240p" ->
             << "bestvideo[height<=240]+bestaudio", "133+140", "133+139", "bestaudio" >>
      [] IsHeight(quality) /\ quality \notin {"720p", "480p", "360p", "240p"} ->
             << "bestvideo[height<=" \o Height(quality) \o "]+bestaudio",
                "bestvideo[height<=" \o Height(quality) \o "]", "bestaudio" >>
      [] OTHER -> << "bestvideo+bestaudio", "bestaudio" >>

\* _get_no_merge_format_selector, which no code calls
get_no_merge_format_selector(quality) ==
    CASE quality = "Audio Only" -> << "bestaudio" >>
      [] quality = "Data Saving" -> << "worst", "bestaudio" >>
      [] quality = "Best Quality" -> << "best", "bestaudio" >>
      [] OTHER -> << "bestaudio" >>

\* the format cut down to the first alternative of the selector
PrimaryFormatFirstOnly(quality, ffmpeg) ==
    IF ~ffmpeg THEN << "bestaudio" >>
    ELSE SubSeq(get_format_selector(quality), 1, 1)

\* the format the primary attempt is given (lines 1646-1660)
PrimaryFormat(quality, ffmpeg) ==
    IF ~ffmpeg THEN << "bestaudio" >> ELSE get_format_selector(quality)

\* '+' in alt: the alternative combines a video and an audio stream
Combines(alt) ==
    alt \in {"worstvideo[height>=144]+bestaudio", "602+139-drc", "602+139",
             "160+139", "bestvideo+bestaudio",
             "bestvideo[height<=1440]+bestaudio",
             "bestvideo[height<=1080]+bestaudio",
             "bestvideo[height<=720]+bestaudio", "136+140", "136+139",
             "bestvideo[height<=480]+bestaudio", "135+140", "135+139",
             "bestvideo[height<=360]+bestaudio", "134+140", "134+139",
             "bestvideo[height<=240]+bestaudio", "133+140", "133+139"}

\* str(n) of the playlist numbers
Str(n) ==
    CASE n = 0 -> "0" [] n = 1 -> "1" [] n = 2 -> "2" [] n = 3 -> "3"
      [] n = 4 -> "4" [] n = 5 -> "5" [] n = 6 -> "6"

\* texts of the start and end entries: empty, no number, and the numbers
\* from 0 to one past the playlist
RangeTexts == {"", "x"} \cup {Str(n) : n \in 0..(MaxEntries + 1)}

\* int(text) as a set: empty when int() raises ValueError
ParseInt(text) == {n \in 0..(MaxEntries + 1) : Str(n) = text}

\* the indices of S in descending order
RECURSIVE SortedDescending(_)
SortedDescending(S) ==
    IF S = {} THEN << >>
    ELSE LET m == CHOOSE x \in S : \A y \in S : x >= y
         IN << m >> \o SortedDescending(S \ {m})

\* the indices of S in ascending order: selected_videos.sort()
RECURSIVE Sorted(_)
Sorted(S) ==
    IF S = {} THEN << >>
    ELSE LET m == CHOOSE x \in S : \A y \in S : x <= y
         IN << m >> \o Sorted(S \ {m})

\* ','.join(map(str, indices))
RECURSIVE JoinIndices(_)
JoinIndices(indices) ==
    IF Len(indices) = 0 THEN ""
    ELSE IF Len(indices) = 1 THEN Str(indices[1])
    ELSE Str(indices[1]) \o "," \o JoinIndices(Tail(indices))

\* ydl_opts whose noplaylist key is set in the primary attempt only
OptsPrimaryOnly(kind, fmt, single, items) ==
    [kind |-> kind, format |-> fmt, noplaylist |-> single /\ kind = "primary",
     playlist_items |-> items]

\* the ydl_opts of a backend download call: which attempt, its format as a
\* sequence of alternatives, and the keys noplaylist and playlist_items
Opts(kind, fmt, single, items) ==
    [kind |-> kind, format |-> fmt, noplaylist |-> single, playlist_items |-> items]

\* no call in flight
NoOpts == Opts("none", << >>, FALSE, NoStr)

\* ------------------------------------------------------------------ state
VARIABLES
    quality_var,      \* self.quality_var
    playlist_var,     \* self.playlist_var, the playlist check box
    playlist_start_var, \* self.playlist_start_var
    playlist_end_var, \* self.playlist_end_var
    selected_playlist_indices, \* self.selected_playlist_indices
    entries,          \* entries of self.current_playlist_info, 0 when none
    phase,            \* the call a session's thread is making
    fmt_index,        \* index i of the fallback format in use
    ydl_opts,         \* the ydl_opts of the call in flight
    ffmpeg_available, \* result of _check_ffmpeg in the session
    collection_mode,  \* the check box has been ticked at some time in the session
    range_origin      \* who wrote the start and end fields last

request == << quality_var, playlist_var, playlist_start_var, playlist_end_var,
             selected_playlist_indices, entries, phase, fmt_index, ydl_opts,
             ffmpeg_available, collection_mode, range_origin >>

VARIABLES
    is_downloading,   \* self.is_downloading, shared by main loop and workers
    download_btn,     \* state of the Download button
    stop_btn,         \* state of the Stop button
    progress_var,     \* self.progress_var
    status_label,     \* text of self.status_label
    queue,            \* state-changing callbacks pending in root.after, in order
    started,          \* number of download sessions launched so far
    pc,               \* position of each worker in _download_thread
    downloaded_files, \* the worker's local set downloaded_files
    already,          \* custom_logger.already_downloaded_detected
    e,                \* the exception the thread caught from the primary attempt
    i,                \* loop index of _fallback_download
    d,                \* the progress dictionary inside enhanced_progress_hook
    nev,              \* progress events the backend has emitted in the session
    attempts,         \* backend download calls of the worker, in order
    restricted,       \* an attempt of the worker raised a 403/Forbidden error
    stop_in_flight,   \* stop_download cleared the flag during the call in flight
    sched             \* outcomes the worker has handed to root.after so far

download == << is_downloading, download_btn, stop_btn, progress_var,
               status_label, queue, started, pc, downloaded_files, already, e,
               i, d, nev, attempts, restricted, stop_in_flight, sched >>

VARIABLES
    emitted,          \* file names of the 'finished' events the backend has handed
                      \* to a progress hook of the session while it was running
    log_text          \* the threads that have inserted lines into self.log_text

observed == << emitted, log_text >>

vars == << download, request, observed >>

main == << is_downloading, download_btn, stop_btn, progress_var, status_label,
          started >>

locals == << downloaded_files, already, e, i, d >>

history == << attempts, restricted, stop_in_flight, sched >>

\* a scheduled callback: root.after(0, fn, ...) issued by worker w
Callback(fn, p, w) == [fn |-> fn, progress |-> p, w |-> w]

\* a backend download call: which attempt, its format, and how the call ended
Attempt(kind, fmt) == [kind |-> kind, format |-> fmt, result |-> "running"]

\* the same log with the result of the call in flight filled in
Ended(log, result) == [log EXCEPT ![Len(log)].result = result]

\* the worker has a backend download call in flight
InFlight(w) ==
    /\ attempts[w] # << >>
    /\ attempts[w][Len(attempts[w])].result = "running"

\* workers whose _download_thread is running
Active == {w \in W : pc[w] \notin {"unborn", "done"}}

\* __init__ and reset_all_options
Init ==
    /\ is_downloading = FALSE
    /\ download_btn = "normal"
    /\ stop_btn = "disabled"
    /\ progress_var = 0
    /\ status_label = "Ready to download"
    /\ queue = << >>
    /\ started = 0
    /\ pc = [w \in W |-> "unborn"]
    /\ downloaded_files = [w \in W |-> {}]
    /\ already = [w \in W |-> FALSE]
    /\ e = [w \in W |-> ""]
    /\ i = [w \in W |-> 0]
    /\ d = [w \in W |-> NoEvent]
    /\ nev = [w \in W |-> 0]
    /\ attempts = [w \in W |-> << >>]
    /\ restricted = [w \in W |-> FALSE]
    /\ stop_in_flight = [w \in W |-> FALSE]
    /\ sched = [w \in W |-> {}]
    /\ quality_var = "Best Quality"
    /\ playlist_var = FALSE
    /\ playlist_start_var = "1"
    /\ playlist_end_var = ""
    /\ selected_playlist_indices = << >>
    /\ entries = 0
    /\ phase = "idle"
    /\ fmt_index = 0
    /\ ydl_opts = NoOpts
    /\ ffmpeg_available = FALSE
    /\ collection_mode = FALSE
    /\ range_origin = "user"
    /\ emitted = [w \in W |-> {}]
    /\ log_text = {}

\* ------------------------------------------------------------ main loop
\* start_download: validates the URL, marks the download as running and
\* launches a _download_thread worker
start_download(url) ==
    IF url = "" \/ ~is_valid_youtube_url(url)
    THEN UNCHANGED vars
    ELSE /\ started < MaxSessions
         /\ download_btn' = "disabled"
         /\ stop_btn' = "normal"
         /\ is_downloading' = TRUE
         /\ progress_var' = 0
         /\ status_label' = "Starting download..."
         /\ started' = started + 1
         /\ pc' = [pc EXCEPT ![started + 1] = "start"]
         /\ UNCHANGED << queue, locals, nev, history >>

\* the Download button, enabled while download_btn is in state NORMAL
StartButton ==
    /\ download_btn = "normal"
    /\ \E url \in Urls : start_download(url)

\* the F9 binding of setup_keyboard_shortcuts
StartF9 ==
    /\ ~is_downloading
    /\ \E url \in Urls : start_download(url)

\* stop_download: clears the flag; the cleanup is left to the worker
stop_download ==
    IF ~is_downloading
    THEN UNCHANGED vars
    ELSE /\ is_downloading' = FALSE
         /\ status_label' = "Stopping download..."
         /\ stop_btn' = "disabled"
         /\ stop_in_flight' = [w \in W |-> InFlight(w)]
         /\ UNCHANGED << download_btn, progress_var, queue, started, pc, locals,
                         nev, attempts, restricted, sched >>

\* the Stop button, enabled while stop_btn is in state NORMAL
StopButton ==
    /\ stop_btn = "normal"
    /\ stop_download

\* the F10 and Escape bindings of setup_keyboard_shortcuts
StopKey ==
    /\ is_downloading
    /\ stop_download

\* _cleanup_download
cleanup_download ==
    /\ is_downloading' = FALSE
    /\ download_btn' = "normal"
    /\ stop_btn' = "disabled"
    /\ progress_var' = 0
    /\ status_label' = "Ready"

\* _download_complete
download_complete ==
    /\ progress_var' = 100
    /\ status_label' = "Download completed successfully!"
    /\ download_btn' = "normal"
    /\ stop_btn' = "disabled"
    /\ is_downloading' = FALSE

\* _download_already_complete
download_already_complete ==
    /\ progress_var' = 100
    /\ status_label' = "Downloaded Already!"
    /\ download_btn' = "normal"
    /\ stop_btn' = "disabled"
    /\ is_downloading' = FALSE

\* _download_error
download_error ==
    /\ status_label' = "Download failed!"
    /\ download_btn' = "normal"
    /\ stop_btn' = "disabled"
    /\ is_downloading' = FALSE
    /\ UNCHANGED progress_var

\* _update_progress
update_progress(progress) ==
    /\ progress_var' = progress
    /\ status_label' = "Downloading"
    /\ UNCHANGED << is_downloading, download_btn, stop_btn >>

\* the Tk main loop runs the oldest pending root.after callback
RunCallback ==
    /\ queue # << >>
    /\ LET cb == Head(queue) IN
         CASE cb.fn = "_cleanup_download" -> cleanup_download
           [] cb.fn = "_download_complete" -> download_complete
           [] cb.fn = "_download_already_complete" -> download_already_complete
           [] cb.fn = "_download_error" -> download_error
           [] OTHER -> update_progress(cb.progress)
    /\ queue' = Tail(queue)
    /\ UNCHANGED << started, pc, locals, nev, history >>

\* ------------------------------------------------------------ the worker
\* the locals of worker w get these values
SetLocals(w, files, detected, exc, k) ==
    /\ downloaded_files' = [downloaded_files EXCEPT ![w] = files]
    /\ already' = [already EXCEPT ![w] = detected]
    /\ e' = [e EXCEPT ![w] = exc]
    /\ i' = [i EXCEPT ![w] = k]

\* the body of _download_thread is left for its finally block, exc being the
\* exception its handler caught from the primary attempt
ToFinally(w, exc) ==
    /\ pc' = [pc EXCEPT ![w] = "finally"]
    /\ SetLocals(w, {}, FALSE, exc, 0)
    /\ nev' = [nev EXCEPT ![w] = 0]

\* _download_thread from its start: the check of line 1625, then the options
\* of the primary attempt are built and ydl.download([url]) is entered
ThreadStart(w) ==
    /\ pc[w] = "start"
    /\ IF ~is_downloading
       THEN /\ pc' = [pc EXCEPT ![w] = "finally"]
            /\ UNCHANGED attempts
       ELSE /\ pc' = [pc EXCEPT ![w] = "primary_run"]
            /\ attempts' = [attempts EXCEPT ![w] =
                               Append(@, Attempt("primary", "format_selector"))]
    /\ UNCHANGED << main, queue, locals, nev, restricted, stop_in_flight, sched >>

\* enhanced_progress_hook up to its call of _progress_hook: the flag check,
\* then the bookkeeping of finished files.  A KeyboardInterrupt raised here
\* is caught around ydl.download (line 1779) and the thread returns.
EnhancedHook(w, ev) ==
    /\ pc[w] = "primary_run"
    /\ nev[w] < MaxEvents
    /\ IF ~is_downloading
       THEN /\ attempts' = [attempts EXCEPT ![w] = Ended(@, "interrupted")]
            /\ stop_in_flight' = [stop_in_flight EXCEPT ![w] = FALSE]
            /\ ToFinally(w, e[w])
            /\ UNCHANGED d
       ELSE /\ downloaded_files' = [downloaded_files EXCEPT ![w] =
                    IF ev.status = "finished" /\ ev.filename # "" /\ ev.filename \notin @
                    THEN @ \cup {ev.filename} ELSE @]
            /\ d' = [d EXCEPT ![w] = ev]
            /\ nev' = [nev EXCEPT ![w] = @ + 1]
            /\ pc' = [pc EXCEPT ![w] = "hook"]
            /\ UNCHANGED << attempts, stop_in_flight, already, e, i >>
    /\ UNCHANGED << main, queue, restricted, sched >>

\* _progress_hook(d) called by worker w, which goes on at pc "back" when the
\* hook returns, n events having been delivered to it by then.  The
\* KeyboardInterrupt of line 1950 ends the attempt: in the primary attempt it is caught around ydl.download, in a fallback attempt no
\* handler of _fallback_download or _download_thread catches it; both ways
\* the finally block is next.
progress_hook(w, ev, back, n) ==
    IF ~is_downloading
    THEN /\ attempts' = [attempts EXCEPT ![w] = Ended(@, "interrupted")]
         /\ stop_in_flight' = [stop_in_flight EXCEPT ![w] = FALSE]
         /\ ToFinally(w, e[w])
         /\ UNCHANGED queue
    ELSE /\ IF ev.status = "downloading" /\ ProgressOf(ev) # {}
            THEN queue' = Append(queue,
                     Callback("_update_progress", CHOOSE p \in ProgressOf(ev) : TRUE, w))
            ELSE UNCHANGED queue
         /\ pc' = [pc EXCEPT ![w] = back]
         /\ nev' = [nev EXCEPT ![w] = n]
         /\ UNCHANGED << attempts, stop_in_flight, downloaded_files, already, e, i >>

\* the call of _progress_hook that ends enhanced_progress_hook (line 1730)
PrimaryHook(w) ==
    /\ pc[w] = "hook"
    /\ progress_hook(w, d[w], "primary_run", nev[w])
    /\ d' = [d EXCEPT ![w] = NoEvent]
    /\ UNCHANGED << main, restricted, sched >>

\* AlreadyDownloadedLogger.debug, called by the backend during the primary attempt
LoggerDebug(w, msg) ==
    /\ pc[w] = "primary_run"
    /\ already' = [already EXCEPT ![w] = @ \/ SaysAlreadyDownloaded(msg)]
    /\ UNCHANGED << main, queue, pc, downloaded_files, e, i, d, nev, history >>

\* ydl.download of the primary attempt returns: lines 1773-1792, then finally
PrimaryReturn(w) ==
    /\ pc[w] = "primary_run"
    /\ attempts' = [attempts EXCEPT ![w] = Ended(@, "returned")]
    /\ stop_in_flight' = [stop_in_flight EXCEPT ![w] = FALSE]
    /\ IF already[w]
       THEN IF is_downloading
            THEN /\ queue' = Append(queue, Callback("_download_already_complete", 0, w))
                 /\ sched' = [sched EXCEPT ![w] = @ \cup {"_download_already_complete"}]
            ELSE UNCHANGED << queue, sched >>
       ELSE IF is_downloading /\ downloaded_files[w] # {}
            THEN /\ queue' = Append(queue, Callback("_download_complete", 0, w))
                 /\ sched' = [sched EXCEPT ![w] = @ \cup {"_download_complete"}]
            ELSE IF is_downloading /\ downloaded_files[w] = {}
            THEN /\ sched' = [sched EXCEPT ![w] = @ \cup {"no_files_downloaded"}]
                 /\ UNCHANGED queue
            ELSE UNCHANGED << queue, sched >>
    /\ ToFinally(w, e[w])
    /\ UNCHANGED << main, d, restricted >>

\* the test of line 1814 spelling the word as the backend does
TryFallbacksCapitalised(error_str, files) ==
    /\ ~Contains(error_str, "403")
    /\ ~Contains(error_str, "Forbidden")
    /\ files = {}

\* the test of line 1814 on the lower-cased text of the primary exception
TryFallbacks(error_str, files) ==
    /\ ~Contains(error_str, "403")
    /\ ~Contains(error_str, "forbidden")
    /\ files = {}

\* the text of the exception names an access restriction (lines 1783, 2014)
IsRestriction(err) == Contains(err, "403") \/ Contains(err, "Forbidden")

\* the head of the loop of _fallback_download for index k, the backend calls
\* so far being log and the primary exception exc: the check of line 1858 (on
\* a clear flag the function returns and _download_thread returns after it,
\* line 1817), else ydl.download([url]) is entered with format k+1.  Past the
\* last format "All fallback formats failed" is raised to the handler of line
\* 1818, which enters _desperate_fallback and its ydl.download([url]).
FallbackLoop(w, k, log, exc) ==
    IF k < NumFallbacks
    THEN IF ~is_downloading
         THEN /\ ToFinally(w, exc)
              /\ attempts' = [attempts EXCEPT ![w] = log]
         ELSE /\ pc' = [pc EXCEPT ![w] = "fallback_run"]
              /\ SetLocals(w, {}, FALSE, exc, k)
              /\ UNCHANGED nev
              /\ attempts' = [attempts EXCEPT ![w] =
                     Append(log, Attempt("fallback", fallback_formats[k + 1]))]
    ELSE /\ pc' = [pc EXCEPT ![w] = "desperate_run"]
         /\ SetLocals(w, {}, FALSE, exc, 0)
         /\ UNCHANGED nev
         /\ attempts' = [attempts EXCEPT ![w] =
                            Append(log, Attempt("desperate", "bestaudio"))]

\* ydl.download of the primary attempt raises err: the handler of line 1782
\* re-raises it to the handler of line 1798, which reports it or enters
\* _fallback_download
PrimaryRaise(w, err) ==
    /\ pc[w] = "primary_run"
    /\ restricted' = [restricted EXCEPT ![w] = @ \/ IsRestriction(err)]
    /\ stop_in_flight' = [stop_in_flight EXCEPT ![w] = FALSE]
    /\ IF TryFallbacks(Lower(err), downloaded_files[w])
       THEN /\ FallbackLoop(w, 0, Ended(attempts[w], "raised"), err)
            /\ UNCHANGED << queue, sched >>
       ELSE /\ attempts' = [attempts EXCEPT ![w] = Ended(@, "raised")]
            /\ queue' = Append(queue, Callback("_download_error", 0, w))
            /\ sched' = [sched EXCEPT ![w] = @ \cup {"_download_error"}]
            /\ ToFinally(w, err)
    /\ UNCHANGED << main, d >>

\* the backend calls the progress hook of a fallback attempt: _progress_hook
FallbackHook(w, ev) ==
    /\ pc[w] = "fallback_run"
    /\ nev[w] < MaxEvents
    /\ progress_hook(w, ev, "fallback_run", nev[w] + 1)
    /\ UNCHANGED << main, d, restricted, sched >>

\* ydl.download of a fallback attempt returns: lines 1877-1880, and
\* _download_thread returns at line 1817
FallbackReturn(w) ==
    /\ pc[w] = "fallback_run"
    /\ attempts' = [attempts EXCEPT ![w] = Ended(@, "returned")]
    /\ stop_in_flight' = [stop_in_flight EXCEPT ![w] = FALSE]
    /\ IF is_downloading
       THEN /\ queue' = Append(queue, Callback("_download_complete", 0, w))
            /\ sched' = [sched EXCEPT ![w] = @ \cup {"_download_complete"}]
       ELSE UNCHANGED << queue, sched >>
    /\ ToFinally(w, e[w])
    /\ UNCHANGED << main, d, restricted >>

\* ydl.download of a fallback attempt raises err (line 1882): the loop goes
\* on with the next format
FallbackRaise(w, err) ==
    /\ pc[w] = "fallback_run"
    /\ restricted' = [restricted EXCEPT ![w] = @ \/ IsRestriction(err)]
    /\ stop_in_flight' = [stop_in_flight EXCEPT ![w] = FALSE]
    /\ FallbackLoop(w, i[w] + 1, Ended(attempts[w], "raised"), e[w])
    /\ UNCHANGED << main, queue, d, sched >>

\* ydl.download of _desperate_fallback returns: lines 1908-1910
DesperateReturn(w) ==
    /\ pc[w] = "desperate_run"
    /\ attempts' = [attempts EXCEPT ![w] = Ended(@, "returned")]
    /\ stop_in_flight' = [stop_in_flight EXCEPT ![w] = FALSE]
    /\ IF is_downloading
       THEN /\ queue' = Append(queue, Callback("_download_complete", 0, w))
            /\ sched' = [sched EXCEPT ![w] = @ \cup {"_download_complete"}]
       ELSE UNCHANGED << queue, sched >>
    /\ ToFinally(w, e[w])
    /\ UNCHANGED << main, d, restricted >>

\* ydl.download of _desperate_fallback raises err: it is wrapped (line 1913)
\* and the handler of line 1824 reports that all methods failed
DesperateRaise(w, err) ==
    /\ pc[w] = "desperate_run"
    /\ attempts' = [attempts EXCEPT ![w] = Ended(@, "raised")]
    /\ restricted' = [restricted EXCEPT ![w] = @ \/ IsRestriction(err)]
    /\ stop_in_flight' = [stop_in_flight EXCEPT ![w] = FALSE]
    /\ queue' = Append(queue, Callback("_download_error", 0, w))
    /\ sched' = [sched EXCEPT ![w] = @ \cup {"all_methods_failed"}]
    /\ ToFinally(w, e[w])
    /\ UNCHANGED << main, d >>

\* the finally block of _download_thread (line 1834), after which the thread
\* has ended
Finally(w) ==
    /\ pc[w] = "finally"
    /\ IF ~is_downloading
       THEN queue' = Append(queue, Callback("_cleanup_download", 0, w))
       ELSE UNCHANGED queue
    /\ pc' = [pc EXCEPT ![w] = "done"]
    /\ e' = [e EXCEPT ![w] = ""]
    /\ attempts' = [attempts EXCEPT ![w] = << >>]
    /\ restricted' = [restricted EXCEPT ![w] = FALSE]
    /\ stop_in_flight' = [stop_in_flight EXCEPT ![w] = FALSE]
    /\ sched' = [sched EXCEPT ![w] = {}]
    /\ UNCHANGED << main, downloaded_files, already, i, d, nev >>

\* ------------------------------------------------------- the specification
\* the steps of sessions and of their cancellation; the request is left as
\* it is
Next ==
    \/ StartButton /\ UNCHANGED << request, observed >>
    \/ StartF9 /\ UNCHANGED << request, observed >>
    \/ StopButton /\ UNCHANGED << request, observed >>
    \/ StopKey /\ UNCHANGED << request, observed >>
    \/ RunCallback /\ UNCHANGED << request, observed >>
    \/ \E w \in W : ThreadStart(w) /\ UNCHANGED << request, observed >>
    \/ \E w \in W, ev \in Events : EnhancedHook(w, ev) /\ UNCHANGED << request, observed >>
    \/ \E w \in W : PrimaryHook(w) /\ UNCHANGED << request, observed >>
    \/ \E w \in W, msg \in DebugMsgs : LoggerDebug(w, msg) /\ UNCHANGED << request, observed >>
    \/ \E w \in W : PrimaryReturn(w) /\ UNCHANGED << request, observed >>
    \/ \E w \in W, err \in ErrTexts : PrimaryRaise(w, err) /\ UNCHANGED << request, observed >>
    \/ \E w \in W, ev \in Events : FallbackHook(w, ev) /\ UNCHANGED << request, observed >>
    \/ \E w \in W : FallbackReturn(w) /\ UNCHANGED << request, observed >>
    \/ \E w \in W, err \in ErrTexts : FallbackRaise(w, err) /\ UNCHANGED << request, observed >>
    \/ \E w \in W : DesperateReturn(w) /\ UNCHANGED << request, observed >>
    \/ \E w \in W, err \in ErrTexts : DesperateRaise(w, err) /\ UNCHANGED << request, observed >>
    \/ \E w \in W : Finally(w) /\ UNCHANGED << request, observed >>

Spec == Init /\ [][Next]_vars

\* ------------------------------------------- the options of a session's calls
\* The request and the ydl_opts that one session after the other builds
\* from it.  The fields of the request other than the playlist check box are
\* edited between sessions: the thread reads them once, for the primary
\* attempt, while the check box is read again for every later call.

\* the quality combobox is set to a text
SetQuality(quality) ==
    /\ phase = "idle"
    /\ quality_var' = quality
    /\ UNCHANGED << playlist_var, playlist_start_var, playlist_end_var,
                    selected_playlist_indices, entries, phase, fmt_index,
                    ydl_opts, ffmpeg_available, collection_mode, range_origin >>

\* the playlist check box is clicked, during a session too
TogglePlaylist ==
    /\ playlist_var' = ~playlist_var
    /\ collection_mode' = (collection_mode \/ (phase # "idle" /\ ~playlist_var))
    /\ UNCHANGED << quality_var, playlist_start_var, playlist_end_var,
                    selected_playlist_indices, entries, phase, fmt_index,
                    ydl_opts, ffmpeg_available, range_origin >>

\* the start and end entries are typed into
SetRange(start, end) ==
    /\ phase = "idle"
    /\ playlist_start_var' = start
    /\ playlist_end_var' = end
    /\ range_origin' = "user"
    /\ UNCHANGED << quality_var, playlist_var, selected_playlist_indices,
                    entries, phase, fmt_index, ydl_opts, ffmpeg_available,
                    collection_mode >>

\* _display_video_info for an analysed playlist
Analyze ==
    /\ phase = "idle"
    /\ entries' = MaxEntries
    /\ selected_playlist_indices' = << >>
    /\ UNCHANGED << quality_var, playlist_var, playlist_start_var,
                    playlist_end_var, phase, fmt_index, ydl_opts,
                    ffmpeg_available, collection_mode, range_origin >>

\* apply_selection of the playlist selector window, S being the indices of
\* the ticked videos
apply_selection(S) ==
    /\ phase = "idle"
    /\ entries > 0
    /\ IF S = {}
       THEN UNCHANGED << playlist_start_var, playlist_end_var,
                         selected_playlist_indices, range_origin >>
       ELSE /\ playlist_start_var' = Str(CHOOSE x \in S : \A y \in S : x <= y)
            /\ playlist_end_var' = Str(CHOOSE x \in S : \A y \in S : x >= y)
            /\ selected_playlist_indices' = Sorted(S)
            /\ range_origin' = "selection"
    /\ UNCHANGED << quality_var, playlist_var, entries, phase, fmt_index,
                    ydl_opts, ffmpeg_available, collection_mode >>

\* start_num of lines 1681-1688
StartNum(text) ==
    IF text # "" /\ ParseInt(text) # {} THEN CHOOSE n \in ParseInt(text) : TRUE ELSE 1

\* end_num of lines 1682-1694, None being Absent
EndNum(text) ==
    IF text # "" /\ ParseInt(text) # {} THEN CHOOSE n \in ParseInt(text) : TRUE
    ELSE Absent

\* playlist_items of lines 1697-1702
RangeItems(start, end) ==
    IF EndNum(end) # Absent /\ EndNum(end) # 0
    THEN Str(StartNum(start)) \o "-" \o Str(EndNum(end))
    ELSE Str(StartNum(start)) \o "-"

\* _download_thread, lines 1628-1705: the ydl_opts of the primary attempt,
\* ffmpeg being what _check_ffmpeg returns
BuildOptions(ffmpeg) ==
    /\ phase = "idle"
    /\ phase' = "primary"
    /\ ffmpeg_available' = ffmpeg
    /\ collection_mode' = playlist_var
    /\ IF ~playlist_var
       THEN /\ ydl_opts' = Opts("primary", PrimaryFormat(quality_var, ffmpeg),
                                TRUE, NoStr)
            /\ UNCHANGED << selected_playlist_indices, range_origin >>
       ELSE IF selected_playlist_indices # << >>
       THEN /\ ydl_opts' = Opts("primary", PrimaryFormat(quality_var, ffmpeg),
                                FALSE, JoinIndices(selected_playlist_indices))
            /\ selected_playlist_indices' = << >>
            /\ range_origin' = IF range_origin = "selection" THEN "consumed"
                               ELSE range_origin
       ELSE /\ ydl_opts' = Opts("primary", PrimaryFormat(quality_var, ffmpeg),
                                FALSE,
                                IF playlist_start_var # "" \/ playlist_end_var # ""
                                THEN RangeItems(playlist_start_var, playlist_end_var)
                                ELSE NoStr)
            /\ UNCHANGED << selected_playlist_indices, range_origin >>
    /\ UNCHANGED << quality_var, playlist_var, playlist_start_var,
                    playlist_end_var, entries, fmt_index >>

\* _fallback_download, lines 1857-1875: the ydl_opts of the next fallback
\* attempt, after the call before it has raised
BuildFallback ==
    /\ \/ phase = "primary"
       \/ phase = "fallback" /\ fmt_index < NumFallbacks
    /\ phase' = "fallback"
    /\ fmt_index' = fmt_index + 1
    /\ ydl_opts' = Opts("fallback", << fallback_formats[fmt_index + 1] >>,
                        ~playlist_var, NoStr)
    /\ UNCHANGED << quality_var, playlist_var, playlist_start_var,
                    playlist_end_var, selected_playlist_indices, entries,
                    ffmpeg_available, collection_mode, range_origin >>

\* _desperate_fallback, lines 1893-1906: the ydl_opts of the final attempt,
\* after the last fallback has raised
BuildDesperate ==
    /\ phase = "fallback"
    /\ fmt_index = NumFallbacks
    /\ phase' = "desperate"
    /\ ydl_opts' = Opts("desperate", << "bestaudio" >>, ~playlist_var, NoStr)
    /\ UNCHANGED << quality_var, playlist_var, playlist_start_var,
                    playlist_end_var, selected_playlist_indices, entries,
                    fmt_index, ffmpeg_available, collection_mode, range_origin >>

\* the call in flight returns, is interrupted or, being the last one, raises:
\* the session's thread ends
EndSession ==
    /\ phase # "idle"
    /\ phase' = "idle"
    /\ fmt_index' = 0
    /\ ydl_opts' = NoOpts
    /\ ffmpeg_available' = FALSE
    /\ collection_mode' = FALSE
    /\ UNCHANGED << quality_var, playlist_var, playlist_start_var,
                    playlist_end_var, selected_playlist_indices, entries,
                    range_origin >>

\* the steps that change the request and build the options
RequestNext ==
    \/ \E quality \in Qualities : SetQuality(quality) /\ UNCHANGED << download, observed >>
    \/ TogglePlaylist /\ UNCHANGED << download, observed >>
    \/ \E start \in RangeTexts, end \in RangeTexts :
           SetRange(start, end) /\ UNCHANGED << download, observed >>
    \/ Analyze /\ UNCHANGED << download, observed >>
    \/ \E S \in SUBSET (1..MaxEntries) : apply_selection(S) /\ UNCHANGED << download, observed >>
    \/ \E ffmpeg \in BOOLEAN : BuildOptions(ffmpeg) /\ UNCHANGED << download, observed >>
    \/ BuildFallback /\ UNCHANGED << download, observed >>
    \/ BuildDesperate /\ UNCHANGED << download, observed >>
    \/ EndSession /\ UNCHANGED << download, observed >>

RequestSpec == Init /\ [][RequestNext]_vars

\* --------------------------------------------- the progress of one attempt
\* 'downloading' dictionaries the backend hands to the progress hooks: every
\* combination of the size, fragment and percent keys being absent, zero or
\* set; when a total is known, downloaded_bytes is there, below the total or
\* above it (the estimate of a fragmented download is revised as it goes on)
ProgressEvents ==
    { ev \in { Event("downloading", "a.mp4", db, tb, tbe, fidx, fcnt, pstr, "") :
                   db \in {Absent, 0, 50, 250, MiB, 30 * MiB}, tb \in {Absent, 0, 100},
                   tbe \in {Absent, 0, 200}, fidx \in {Absent, 3},
                   fcnt \in {Absent, 0, 10}, pstr \in {NoStr, "N/A", " 42.0%"} } :
          (ev.total_bytes > 0 \/ ev.total_bytes_estimate > 0) =>
              ev.downloaded_bytes \in {0, 50, 250} }

\* a session whose primary attempt is in flight: the state that
\* start_download and the start of _download_thread lead to
ProgressInit ==
    /\ is_downloading = TRUE
    /\ download_btn = "disabled"
    /\ stop_btn = "normal"
    /\ progress_var = 0
    /\ status_label = "Starting download..."
    /\ queue = << >>
    /\ started = 1
    /\ pc = [w \in W |-> IF w = 1 THEN "primary_run" ELSE "unborn"]
    /\ downloaded_files = [w \in W |-> {}]
    /\ already = [w \in W |-> FALSE]
    /\ e = [w \in W |-> ""]
    /\ i = [w \in W |-> 0]
    /\ d = [w \in W |-> NoEvent]
    /\ nev = [w \in W |-> 0]
    /\ attempts = [w \in W |-> IF w = 1
                               THEN << Attempt("primary", "format_selector") >>
                               ELSE << >>]
    /\ restricted = [w \in W |-> FALSE]
    /\ stop_in_flight = [w \in W |-> FALSE]
    /\ sched = [w \in W |-> {}]
    /\ quality_var = "Best Quality"
    /\ playlist_var = FALSE
    /\ playlist_start_var = "1"
    /\ playlist_end_var = ""
    /\ selected_playlist_indices = << >>
    /\ entries = 0
    /\ phase = "idle"
    /\ fmt_index = 0
    /\ ydl_opts = NoOpts
    /\ ffmpeg_available = FALSE
    /\ collection_mode = FALSE
    /\ range_origin = "user"
    /\ emitted = [w \in W |-> {}]
    /\ log_text = {}

\* the backend reports progress to the hooks of the attempt and the main
\* loop runs the updates they schedule
ProgressNext ==
    \/ \E w \in W, ev \in ProgressEvents : EnhancedHook(w, ev) /\ UNCHANGED << request, observed >>
    \/ \E w \in W : PrimaryHook(w) /\ UNCHANGED << request, observed >>
    \/ RunCallback /\ UNCHANGED << request, observed >>

ProgressSpec == ProgressInit /\ [][ProgressNext]_vars

\* ------------------------------------------------ one session, observed
\* One session from start_download to the end of its thread, with what it
\* is seen to do: the 'finished' events the backend hands to its hooks and
\* the threads that call log_message, which inserts into self.log_text.

\* start_download has launched the session's thread
SessionInit ==
    /\ is_downloading = TRUE
    /\ download_btn = "disabled"
    /\ stop_btn = "normal"
    /\ progress_var = 0
    /\ status_label = "Starting download..."
    /\ queue = << >>
    /\ started = 1
    /\ pc = [w \in W |-> IF w = 1 THEN "start" ELSE "unborn"]
    /\ downloaded_files = [w \in W |-> {}]
    /\ already = [w \in W |-> FALSE]
    /\ e = [w \in W |-> ""]
    /\ i = [w \in W |-> 0]
    /\ d = [w \in W |-> NoEvent]
    /\ nev = [w \in W |-> 0]
    /\ attempts = [w \in W |-> << >>]
    /\ restricted = [w \in W |-> FALSE]
    /\ stop_in_flight = [w \in W |-> FALSE]
    /\ sched = [w \in W |-> {}]
    /\ quality_var = "Best Quality"
    /\ playlist_var = FALSE
    /\ playlist_start_var = "1"
    /\ playlist_end_var = ""
    /\ selected_playlist_indices = << >>
    /\ entries = 0
    /\ phase = "idle"
    /\ fmt_index = 0
    /\ ydl_opts = NoOpts
    /\ ffmpeg_available = FALSE
    /\ collection_mode = FALSE
    /\ range_origin = "user"
    /\ emitted = [w \in W |-> {}]
    /\ log_text = {}

\* log_message is called by thread who when cond holds, else by no one
LogMessage(who, cond) ==
    log_text' = IF cond THEN log_text \cup {who} ELSE log_text

\* the backend hands ev to a progress hook of worker w: a 'finished' event
\* with a file name, handed over while the session is running, is recorded
Emits(w, ev) ==
    emitted' = [emitted EXCEPT ![w] =
                   IF is_downloading /\ ev.status = "finished" /\ ev.filename # ""
                   THEN @ \cup {ev.filename} ELSE @]

\* the callback at the head of the queue calls log_message (lines 2081,
\* 2112, 2141)
HeadLogs ==
    /\ queue # << >>
    /\ Head(queue).fn \in {"_download_complete", "_download_already_complete",
                           "_download_error"}

\* the steps of the session: stop_download logs at line 2156; the thread
\* calls log_message itself before the primary attempt (lines 1709-1711),
\* when the primary attempt is interrupted (line 1780) and when it raises a
\* 403 error (lines 1784-1785); elsewhere it hands log_message to root.after
SessionNext ==
    \/ StopButton /\ LogMessage("main", TRUE) /\ UNCHANGED << request, emitted >>
    \/ StopKey /\ LogMessage("main", TRUE) /\ UNCHANGED << request, emitted >>
    \/ RunCallback /\ LogMessage("main", HeadLogs) /\ UNCHANGED << request, emitted >>
    \/ \E w \in W : /\ ThreadStart(w)
                     /\ LogMessage("worker", is_downloading)
                     /\ UNCHANGED << request, emitted >>
    \/ \E w \in W, ev \in Events :
           /\ EnhancedHook(w, ev)
           /\ Emits(w, ev)
           /\ LogMessage("worker", ~is_downloading)
           /\ UNCHANGED request
    \/ \E w \in W : /\ PrimaryHook(w)
                     /\ LogMessage("worker", ~is_downloading)
                     /\ UNCHANGED << request, emitted >>
    \/ \E w \in W, msg \in DebugMsgs :
           LoggerDebug(w, msg) /\ UNCHANGED << request, observed >>
    \/ \E w \in W : PrimaryReturn(w) /\ UNCHANGED << request, observed >>
    \/ \E w \in W, err \in ErrTexts :
           /\ PrimaryRaise(w, err)
           /\ LogMessage("worker", IsRestriction(err))
           /\ UNCHANGED << request, emitted >>
    \/ \E w \in W, ev \in Events :
           /\ FallbackHook(w, ev)
           /\ Emits(w, ev)
           /\ UNCHANGED << request, log_text >>
    \/ \E w \in W : FallbackReturn(w) /\ UNCHANGED << request, observed >>
    \/ \E w \in W, err \in ErrTexts :
           FallbackRaise(w, err) /\ UNCHANGED << request, observed >>
    \/ \E w \in W : DesperateReturn(w) /\ UNCHANGED << request, observed >>
    \/ \E w \in W, err \in ErrTexts :
           DesperateRaise(w, err) /\ UNCHANGED << request, observed >>
    \/ \E w \in W : Finally(w) /\ UNCHANGED << request, observed >>

SessionSpec == SessionInit /\ [][SessionNext]_vars

\* ------------------------------------------------------------ the claims
\* the last backend download call of worker w
Last(w) == attempts[w][Len(attempts[w])]

\* worker w starts a backend download call in this step
StartsCall(w) == Len(attempts'[w]) > Len(attempts[w])

\* a progress callback of worker w returns in this step without raising
CallbackReturns(w) ==
    \/ nev'[w] = nev[w] + 1
    \/ pc[w] = "hook" /\ pc'[w] = "primary_run"

\* C1: when stop_download has cleared is_downloading while a call of the
\* primary or of a fallback attempt is in flight, a progress callback that
\* this call invokes afterwards aborts the call: it never returns normally
\* (and so no later attempt and no terminal follows in the session)
C1_CallbackAbortsStoppedAttempt ==
    [][\A w \in W : stop_in_flight[w] => ~CallbackReturns(w)]_vars

\* C2: the flag is checked before every attempt, the final minimal one too:
\* a backend download call is started only while is_downloading is set
C2_NoCallStartedOnClearFlag ==
    [][\A w \in W : StartsCall(w) => is_downloading]_vars

\* C3: a primary exception whose text contains '403' or 'Forbidden' is
\* reported as the terminal outcome, and the primary call is the only backend
\* call of the session
C3_RestrictedPrimaryIsTerminal ==
    \A w \in W : IsRestriction(e[w]) =>
        /\ pc[w] = "finally"
        /\ Len(attempts[w]) = 1
        /\ attempts[w][1].kind = "primary"
        /\ attempts[w][1].result = "raised"
        /\ sched[w] = {"_download_error"}

\* C3 witness: a session whose primary attempt raised "Forbidden" and which
\* has reported the error
C3_Witness ==
    \E w \in W :
        /\ pc[w] = "finally"
        /\ e[w] = "Forbidden"
        /\ attempts[w][1].result = "raised"
        /\ "_download_error" \in sched[w]

\* C4 as stated: once any attempt of a session, primary or fallback, has
\* raised an error whose text contains '403' or 'Forbidden', no later call is
\* started in the session
C4_NoCallAfterAnyRestriction ==
    [][\A w \in W : restricted'[w] => ~StartsCall(w)]_vars

\* C4 amended: once the primary attempt has raised such an error, no fallback
\* attempt and no final minimal attempt is started in the session
C4_NoCallAfterRestrictedPrimary ==
    [][\A w \in W : IsRestriction(e'[w]) => ~StartsCall(w)]_vars

\* C4 witness: the primary attempt raised a 403 error and the thread body
\* has ended with that one call
C4_Witness ==
    \E w \in W :
        /\ pc[w] = "finally"
        /\ e[w] = "HTTP Error 403"
        /\ restricted[w]
        /\ Len(attempts[w]) = 1

\* the terminal reports a session may make of a failure
FailureReports == {"_download_error", "all_methods_failed"}

\* every backend download call of worker w has raised
AllRaised(w) == \A k \in DOMAIN attempts[w] : attempts[w][k].result = "raised"

\* C5: a primary exception that is neither a restriction nor an
\* 'unavailable' error is reported as a failure only after the five fallback
\* attempts and the final minimal attempt have all been started and have all
\* raised, whatever the set of completed files is
C5_FailureOnlyAfterWholeChain ==
    \A w \in W :
        ( /\ pc[w] = "finally"
          /\ e[w] # ""
          /\ ~IsRestriction(e[w])
          /\ ~Contains(Lower(e[w]), "unavailable")
          /\ sched[w] \cap FailureReports # {} ) =>
        /\ Len(attempts[w]) = 7
        /\ AllRaised(w)

\* C6: a primary exception whose text contains 'unavailable' ends the
\* session: no fallback attempt is started after it
C6_UnavailableStartsNoFallback ==
    \A w \in W : Contains(Lower(e[w]), "unavailable") => Len(attempts[w]) = 1

\* the order of the fallback formats
C7_Order == << "bestaudio", "602+139-drc", "bestvideo+bestaudio", "602", "139-drc" >>

\* the fallback attempts of worker w are made in the order of the list, each
\* one after the call before it has raised, and none after a fallback that
\* returned
C7_InOrder(w) ==
    \A k \in DOMAIN attempts[w] :
        /\ k > 1 => attempts[w][k - 1].result = "raised"
        /\ attempts[w][k].kind = "fallback" =>
               /\ k - 1 \in DOMAIN C7_Order
               /\ attempts[w][k].format = C7_Order[k - 1]

\* a fallback attempt of worker w has returned without raising
C7_FallbackReturned(w) ==
    /\ pc[w] = "finally"
    /\ attempts[w] # << >>
    /\ Last(w).kind = "fallback"
    /\ Last(w).result = "returned"

\* C7 as stated: the fallbacks are attempted in the order of the list, the
\* chain stops at the first one that returns without raising, and the
\* session then reports Succeeded
C7_FirstSuccessSucceeds ==
    \A w \in W :
        /\ C7_InOrder(w)
        /\ C7_FallbackReturned(w) => sched[w] = {"_download_complete"}

\* C7 amended: as stated, Succeeded being reported when is_downloading is
\* still set as the fallback returns; when stop_download has cleared it by
\* then, nothing is reported
C7_FirstSuccessSucceedsUnlessStopped ==
    [][\A w \in W :
          /\ C7_InOrder(w)'
          /\ (pc[w] = "fallback_run" /\ C7_FallbackReturned(w)') =>
                 /\ is_downloading => sched'[w] = {"_download_complete"}
                 /\ ~is_downloading => sched'[w] = {}]_vars

\* C7 witness: the primary attempt and the first fallback raised, the second
\* fallback returned and Succeeded is reported after exactly three calls
C7_Witness ==
    \E w \in W :
        /\ C7_FallbackReturned(w)
        /\ Len(attempts[w]) = 3
        /\ Last(w).format = "602+139-drc"
        /\ sched[w] = {"_download_complete"}

\* C8: the final minimal attempt is started exactly when all five fallbacks
\* have raised, at most once and as the last call; the exhausted failure is
\* reported only after it has raised too; a session makes at most seven calls
C8_DesperateAfterFiveFallbacks ==
    \A w \in W :
        /\ Len(attempts[w]) <= 7
        /\ \A k \in DOMAIN attempts[w] :
               attempts[w][k].kind = "desperate" =>
                   /\ k = 7
                   /\ attempts[w][k].format = "bestaudio"
                   /\ \A j \in 2..6 : /\ attempts[w][j].kind = "fallback"
                                      /\ attempts[w][j].result = "raised"
        /\ ( /\ Len(attempts[w]) >= 6
             /\ attempts[w][6].kind = "fallback"
             /\ attempts[w][6].result = "raised" ) =>
               /\ Len(attempts[w]) = 7
               /\ attempts[w][7].kind = "desperate"
        /\ "all_methods_failed" \in sched[w] =>
               /\ Len(attempts[w]) = 7
               /\ AllRaised(w)

\* C8 witness: the seventh call of a session, the final minimal attempt, has
\* raised and the exhausted failure is reported
C8_Witness ==
    \E w \in W :
        /\ pc[w] = "finally"
        /\ Len(attempts[w]) = 7
        /\ Last(w).kind = "desperate"
        /\ Last(w).result = "raised"
        /\ "all_methods_failed" \in sched[w]

\* C9: once the backend has said during the primary attempt that the file
\* has already been downloaded, no fallback attempt is started and no
\* failure is reported in the session
C9_AlreadyDownloadedNeverFallsBack ==
    [][\A w \in W : already[w] =>
          /\ ~StartsCall(w)
          /\ sched'[w] \cap FailureReports = {}]_vars

\* C10: an attempt, primary, fallback or final, that returns without raising
\* while the set of completed files is empty does not report Succeeded, and
\* a session still running and not already downloaded reports the soft
\* failure
C10_NoSuccessWithoutFiles ==
    [][\A w \in W :
          ( /\ InFlight(w)
            /\ Last(w).result = "running"
            /\ attempts'[w] # << >>
            /\ Len(attempts'[w]) = Len(attempts[w])
            /\ attempts'[w][Len(attempts'[w])].result = "returned"
            /\ downloaded_files[w] = {} ) =>
              /\ "_download_complete" \notin sched'[w]
              /\ (is_downloading /\ ~already[w]) =>
                     "no_files_downloaded" \in sched'[w]]_vars

\* C11: at most one download session is active: start_download launches no
\* _download_thread worker while an earlier worker has not finished
C11_AtMostOneActiveSession == Cardinality(Active) <= 1

\* the thread builds the options of a primary attempt in this step
BuildsPrimary == phase = "idle" /\ phase' = "primary"

\* C12: for every quality text and both results of the merge probe, the
\* format of the primary attempt is a non-empty list of alternatives whose
\* last one is 'bestaudio'
C12_SelectorEndsWithBestaudio ==
    ydl_opts.kind = "primary" =>
        /\ Len(ydl_opts.format) > 0
        /\ ydl_opts.format[Len(ydl_opts.format)] = "bestaudio"

\* C12 witness: a primary attempt with the merge tool found and a quality
\* text that is no known tier, given the generic two alternatives
C12_Witness ==
    /\ ydl_opts.kind = "primary"
    /\ quality_var = "4K"
    /\ ffmpeg_available
    /\ ydl_opts.format = << "bestvideo+bestaudio", "bestaudio" >>

\* the no-merge mapping of the tiers
C13_NoMergeMapping(quality) ==
    CASE quality = "Audio Only" -> << "bestaudio" >>
      [] quality = "Data Saving" -> << "worst", "bestaudio" >>
      [] quality = "Best Quality" -> << "best", "bestaudio" >>
      [] OTHER -> << "bestaudio" >>

\* C13: when the merge tool is not found, the format of the primary attempt
\* is the no-merge mapping of the quality tier
C13_NoMergeSelectorPerTier ==
    (ydl_opts.kind = "primary" /\ ~ffmpeg_available /\ quality_var # "4K") =>
        ydl_opts.format = C13_NoMergeMapping(quality_var)

\* C14: in a session whose probe did not find the merge tool, no call is
\* given a format with an alternative that combines video and audio streams
C14_NoCombinedStreamsWithoutMerge ==
    (phase # "idle" /\ ~ffmpeg_available) =>
        \A k \in DOMAIN ydl_opts.format : ~Combines(ydl_opts.format[k])

\* the indices of a selection in ascending order, joined by commas
C15_Joined(S) ==
    CASE S = {1} -> "1" [] S = {2} -> "2" [] S = {3} -> "3"
      [] S = {1, 2} -> "1,2" [] S = {1, 3} -> "1,3" [] S = {2, 3} -> "2,3"
      [] S = {1, 2, 3} -> "1,2,3"

\* C15: in collection mode a stored selection of indices wins over the start
\* and end fields: the primary attempt's playlist_items is the indices in
\* ascending order joined by commas, and the stored selection is empty once
\* the options are built
C15_ExplicitIndicesFirst ==
    [][(BuildsPrimary /\ playlist_var /\ selected_playlist_indices # << >>) =>
          /\ ydl_opts'.playlist_items =
                 C15_Joined({selected_playlist_indices[k] :
                                 k \in DOMAIN selected_playlist_indices})
          /\ ~ydl_opts'.noplaylist
          /\ selected_playlist_indices' = << >>]_vars

\* C15 witness: a primary attempt given the two selected indices although
\* the end field has been emptied since, the stored selection being empty
C15_Witness ==
    /\ ydl_opts.kind = "primary"
    /\ ydl_opts.playlist_items = "1,2"
    /\ playlist_end_var = ""
    /\ range_origin = "user"
    /\ selected_playlist_indices = << >>

\* C16: a download started with no new selection, after an earlier download
\* has consumed the selection made in the playlist selector, is given no
\* item selector derived from that selection
C16_ConsumedSelectionNotReused ==
    [][(BuildsPrimary /\ range_origin = "consumed") =>
          ydl_opts'.playlist_items = NoStr]_vars

\* the text is empty or a number
C17_Numeric(text) == text = "" \/ ParseInt(text) # {}

\* C17: in collection mode with no stored selection, numeric start and end
\* fields give 'S-E' when the end is provided and 'S-' when it is not, S being
\* 1 when the start is not provided, and no playlist_items when neither is
C17_RangeSelector ==
    [][( /\ BuildsPrimary /\ playlist_var /\ selected_playlist_indices = << >>
         /\ C17_Numeric(playlist_start_var) /\ C17_Numeric(playlist_end_var) ) =>
          ydl_opts'.playlist_items =
              IF playlist_start_var = "" /\ playlist_end_var = "" THEN NoStr
              ELSE (IF playlist_start_var = "" THEN "1" ELSE playlist_start_var)
                   \o "-" \o playlist_end_var]_vars

\* the range start..end, end being Absent when not given, is not within a
\* playlist of N entries
C18_InvalidRange(start, end, N) ==
    \/ start < 1
    \/ start > N
    \/ end # Absent /\ (end < start \/ end > N)

\* C18: when the playlist has been analysed, no primary attempt is made with
\* a range of the start and end fields that is not within its entries
C18_InvalidRangeNotSent ==
    [][( /\ BuildsPrimary /\ playlist_var /\ selected_playlist_indices = << >>
         /\ entries > 0
         /\ playlist_start_var # "" \/ playlist_end_var # ""
         /\ C17_Numeric(playlist_start_var) /\ C17_Numeric(playlist_end_var) ) =>
          ~C18_InvalidRange(
              IF playlist_start_var = "" THEN 1
              ELSE CHOOSE n \in ParseInt(playlist_start_var) : TRUE,
              IF playlist_end_var = "" THEN Absent
              ELSE CHOOSE n \in ParseInt(playlist_end_var) : TRUE,
              entries)]_vars

C20_FirstSatisfiedTier(ev) ==
    IF ev.total_bytes > 0
    THEN {(ev.downloaded_bytes * 100) \div ev.total_bytes}
    ELSE IF ev.total_bytes_estimate > 0
    THEN {(ev.downloaded_bytes * 100) \div ev.total_bytes_estimate}
    ELSE IF ev.fragment_count > 0 /\ ev.fragment_index # Absent
    THEN {(ev.fragment_index * 100) \div ev.fragment_count}
    ELSE IF ev.percent_str = " 42.0%"
    THEN {42}
    ELSE IF ev.downloaded_bytes > 0
    THEN {IF 2 * (ev.downloaded_bytes \div 1048576) > 50 THEN 50
          ELSE 2 * (ev.downloaded_bytes \div 1048576)}
    ELSE {}

\* C20: for a 'downloading' event whose percent string, if any, can be
\* parsed, _progress_hook schedules the update with the percent of the first
\* satisfied tier, in the order total_bytes, total_bytes_estimate,
\* fragment_count, percent string, raw downloaded_bytes, and no update when
\* no tier is satisfied
C20_FirstSatisfiedTierOnly ==
    [][\A w \in W :
          ( /\ pc[w] = "hook" /\ pc'[w] = "primary_run"
            /\ d[w].status = "downloading"
            /\ d[w].percent_str # "N/A" ) =>
              queue' = IF C20_FirstSatisfiedTier(d[w]) = {} THEN queue
                       ELSE Append(queue,
                                Callback("_update_progress",
                                    CHOOSE p \in C20_FirstSatisfiedTier(d[w]) : TRUE,
                                    w))]_vars

\* C21: the percent handed to the progress display, pending in the queue or
\* shown, lies between 0 and 100 whatever sizes, fragment numbers and
\* percent string the backend reports
C21_PercentInRange ==
    /\ progress_var \in 0..100
    /\ \A k \in DOMAIN queue :
           queue[k].fn = "_update_progress" => queue[k].progress \in 0..100

\* C22: while the call that a stop request found in flight has not yet
\* reached a progress callback or its end, the cancellation stays pending:
\* no step, a new start_download least of all, sets the flag again
C22_StartKeepsPendingCancellation ==
    [][\A w \in W : (stop_in_flight[w] /\ stop_in_flight'[w]) => ~is_downloading']_vars

\* C23: the log text is changed by the main loop only: no _download_thread
\* worker, and no callback the backend runs on it, calls log_message itself
C23_OnlyMainLoopWritesLog == "worker" \notin log_text

\* an alternative that caps the height
C24_Capped(alt) ==
    alt \in {"best[height<=2160]", "bestvideo[height<=1440]+bestaudio",
             "bestvideo[height<=1080]+bestaudio", "bestvideo[height<=1080]",
             "bestvideo[height<=720]+bestaudio",
             "bestvideo[height<=480]+bestaudio",
             "bestvideo[height<=360]+bestaudio",
             "bestvideo[height<=240]+bestaudio"}

\* an alternative with no constraint on the streams
C24_Unconstrained(alt) == alt \in {"bestvideo+bestaudio", "bestaudio"}

\* the first alternative of a tier
C24_First(quality) ==
    CASE quality = "Best Quality" -> "best[height<=2160]"
      [] quality = "1080p" -> "bestvideo[height<=1080]+bestaudio"
      [] quality = "720p" -> "bestvideo[height<=720]+bestaudio"
      [] quality = "480p" -> "bestvideo[height<=480]+bestaudio"
      [] quality = "360p" -> "bestvideo[height<=360]+bestaudio"
      [] quality = "240p" -> "bestvideo[height<=240]+bestaudio"

\* C24: with the merge tool found, the format of Best Quality and of a
\* height tier has its height-capped alternatives before any unconstrained
\* one, the first being the tier's cap, and ends with the generic
\* 'bestvideo+bestaudio' and then 'bestaudio'
C24_CappedBeforeUnconstrained ==
    ( /\ ydl_opts.kind = "primary"
      /\ ffmpeg_available
      /\ quality_var = "Best Quality" \/ IsHeight(quality_var) ) =>
        LET f == ydl_opts.format
            n == Len(f)
        IN  /\ n >= 3
            /\ f[1] \in {C24_First(quality_var), "bestvideo[height<=2160]+bestaudio"}
            /\ \A j \in 1..n, k \in 1..n :
                   (j < k /\ C24_Capped(f[k])) => ~C24_Unconstrained(f[j])
            /\ f[n - 1] = "bestvideo+bestaudio"
            /\ f[n] = "bestaudio"

\* the percent of the tiers after the fragment tier, as a set
C25_LaterTiers(ev) ==
    IF ev.percent_str = " 42.0%" THEN {42}
    ELSE IF ev.downloaded_bytes > 0
    THEN {IF 2 * (ev.downloaded_bytes \div 1048576) > 50 THEN 50
          ELSE 2 * (ev.downloaded_bytes \div 1048576)}
    ELSE {}

\* C25: for a 'downloading' event with no total and no estimate above 0 and
\* with fragment_index and a fragment_count that is not above 0, the update
\* scheduled is that of the percent string when it can be parsed and else
\* that of the raw downloaded_bytes
C25_UnsatisfiedFragmentTierFallsThrough ==
    [][\A w \in W :
          ( /\ pc[w] = "hook" /\ pc'[w] = "primary_run"
            /\ d[w].status = "downloading"
            /\ d[w].total_bytes <= 0 /\ d[w].total_bytes_estimate <= 0
            /\ d[w].fragment_index # Absent /\ d[w].fragment_count = 0
            /\ d[w].percent_str # "N/A" ) =>
              queue' = IF C25_LaterTiers(d[w]) = {} THEN queue
                       ELSE Append(queue,
                                Callback("_update_progress",
                                    CHOOSE p \in C25_LaterTiers(d[w]) : TRUE, w))]_vars

\* C26: when the hooks have processed a 'finished' event, an update of the
\* percent to 100 has been handed to the main loop; when they have processed
\* an 'error' event, no update has been
C26_FinishedPinsPercent ==
    [][\A w \in W :
          (pc[w] = "hook" /\ pc'[w] = "primary_run") =>
              /\ d[w].status = "finished" =>
                     \E k \in DOMAIN queue' : /\ k > Len(queue)
                                              /\ queue'[k].progress = 100
              /\ d[w].status = "error" => queue' = queue]_vars

\* C27: while a call of the session is in flight, the completed-file set is
\* the set of file names of the 'finished' events handed to the session's
\* hooks, in the primary and in the fallback attempts
C27_CompletedFilesAreFinishedFiles ==
    \A w \in W :
        pc[w] \in {"primary_run", "hook", "fallback_run", "desperate_run"} =>
            downloaded_files[w] = emitted[w]

\* C28: when every thread launched has ended and no callback is pending, so
\* that nothing more comes of the sessions, the controller is idle
C28_EndedSessionLeavesIdle ==
    ( /\ started > 0
      /\ \A w \in W : pc[w] \in {"unborn", "done"}
      /\ queue = << >> ) =>
        /\ ~is_downloading
        /\ download_btn = "normal"
        /\ stop_btn = "disabled"

\* the terminal handlers of Succeeded and AlreadyExists
C29_Handlers == {"_download_complete", "_download_already_complete"}

\* the handler that worker w scheduled has run and its completion is shown
C29_CompletionShown(w) ==
    /\ sched[w] \cap C29_Handlers # {}
    /\ \A k \in DOMAIN queue : ~(queue[k].w = w /\ queue[k].fn \in C29_Handlers)
    /\ progress_var = 100
    /\ status_label \in {"Download completed successfully!", "Downloaded Already!"}

\* C29: once the completion of its session is shown, the finally block of a
\* worker hands no callback to the main loop: no _cleanup_download that puts
\* the progress back to 0 and the status to 'Ready'
C29_NoCleanupAfterCompletion ==
    [][\A w \in W :
          (C29_CompletionShown(w) /\ pc[w] = "finally" /\ pc'[w] = "done") =>
              queue' = queue]_vars

\* C30: with the check box ticked, a fallback or final attempt that follows
\* a call restricted to playlist items is restricted to the same items
C30_FallbacksKeepItemSelector ==
    [][( /\ phase # "idle" /\ phase' \in {"fallback", "desperate"}
         /\ ydl_opts' # ydl_opts
         /\ playlist_var /\ playlist_var'
         /\ ydl_opts.playlist_items # NoStr ) =>
          ydl_opts'.playlist_items = ydl_opts.playlist_items]_vars

====
